---- MODULE Spec2Model ----
(***************************************************************************)
(* A model of the quiz generation service (llm.js): extractJson, which     *)
(* recovers a JSON object from the text a language model returns, and      *)
(* generateQuizPayload, which asks the model for questions in up to four   *)
(* rounds and assembles the quiz record, or hands over to fallbackQuiz.    *)
(*                                                                         *)
(* A text is a sequence of characters, each a one-element string; the four *)
(* typographic quotes are written as named characters.  A JavaScript value *)
(* is a record [t |-> type tag, v |-> payload].                            *)
(***************************************************************************)
EXTENDS Integers, Sequences, FiniteSets, TLC

\* ------------------------------------------------------------------------
\* JavaScript values
\* ------------------------------------------------------------------------

Undefined == [t |-> "undef", v |-> 0]
Null == [t |-> "null", v |-> 0]
Num(n) == [t |-> "num", v |-> n]
Bool(b) == [t |-> "bool", v |-> b]
Str(cs) == [t |-> "str", v |-> cs]
Arr(xs) == [t |-> "arr", v |-> xs]
\* an object is its members in insertion order, each [k |-> key, v |-> value]
Obj(ms) == [t |-> "obj", v |-> ms]

\* ToBoolean, as `||`, `&&` and `if` apply it
Truthy(x) ==
  CASE x.t = "undef" -> FALSE
    [] x.t = "null" -> FALSE
    [] x.t = "num" -> x.v # 0
    [] x.t = "bool" -> x.v
    [] x.t = "str" -> Len(x.v) > 0
    [] OTHER -> TRUE

\* a || b
OrElse(a, b) == IF Truthy(a) THEN a ELSE b

\* SameValueZero, the comparison of Set.prototype.has: primitives by value,
\* objects and arrays by identity (two parsed objects are never the same one)
SameValueZero(a, b) == a.t \notin {"arr", "obj"} /\ a = b

RECURSIVE LastMember(_, _, _)
LastMember(ms, key, i) ==
  IF i = 0 THEN Undefined
  ELSE IF ms[i].k = key THEN ms[i].v
  ELSE LastMember(ms, key, i - 1)

\* x.key for one of the plain data keys the code reads; reading a property of
\* undefined or null is a TypeError, which HasProps rules out beforehand
HasProps(x) == x.t \notin {"undef", "null"}
Get(x, key) == IF x.t = "obj" THEN LastMember(x.v, key, Len(x.v)) ELSE Undefined

\* ------------------------------------------------------------------------
\* Characters
\* ------------------------------------------------------------------------

DQ == "\""
SQ == "'"
LDQuote == "<ldquo>"
RDQuote == "<rdquo>"
LSQuote == "<lsquo>"
RSQuote == "<rsquo>"
NL == "\n"
TAB == "\t"

\* [\u0000-\u001F]
IsControl(ch) == ch \in {NL, TAB, "\r"}
\* \s as far as the alphabet goes, which is also JSON's whitespace
IsSpace(ch) == ch \in {" ", NL, TAB, "\r"}
IsDigit(ch) == ch \in {"0", "1", "2", "3", "4", "5", "6", "7", "8", "9"}
DigitVal(ch) ==
  CASE ch = "0" -> 0 [] ch = "1" -> 1 [] ch = "2" -> 2 [] ch = "3" -> 3
    [] ch = "4" -> 4 [] ch = "5" -> 5 [] ch = "6" -> 6 [] ch = "7" -> 7
    [] ch = "8" -> 8 [] OTHER -> 9

EOF == "<eof>"
At(t, i) == IF i >= 1 /\ i <= Len(t) THEN t[i] ELSE EOF

\* ------------------------------------------------------------------------
\* JSON.parse, for texts without backslash escapes, signs, fractions and
\* exponents (the alphabet has no backslash)
\* ------------------------------------------------------------------------

ParseFail == [ok |-> FALSE, val |-> Undefined, next |-> 0]
ParseOk(val, next) == [ok |-> TRUE, val |-> val, next |-> next]

RECURSIVE SkipWs(_, _)
SkipWs(t, i) == IF IsSpace(At(t, i)) THEN SkipWs(t, i + 1) ELSE i

\* the index of the quote closing a string whose content starts at j, or 0
RECURSIVE StringEnd(_, _)
StringEnd(t, j) ==
  IF j > Len(t) THEN 0
  ELSE IF t[j] = DQ THEN j
  ELSE IF IsControl(t[j]) \/ t[j] = "\\" THEN 0
  ELSE StringEnd(t, j + 1)

ParseString(t, i) ==
  LET e == StringEnd(t, i + 1)
  IN IF e = 0 THEN ParseFail ELSE ParseOk(Str(SubSeq(t, i + 1, e - 1)), e + 1)

RECURSIVE DigitsEnd(_, _)
DigitsEnd(t, j) == IF IsDigit(At(t, j)) THEN DigitsEnd(t, j + 1) ELSE j

RECURSIVE DigitsVal(_, _, _, _)
DigitsVal(t, j, e, acc) ==
  IF j >= e THEN acc ELSE DigitsVal(t, j + 1, e, acc * 10 + DigitVal(t[j]))

ParseNumber(t, i) ==
  IF t[i] = "0" THEN ParseOk(Num(0), i + 1)
  ELSE LET e == DigitsEnd(t, i) IN ParseOk(Num(DigitsVal(t, i, e, 0)), e)

ParseLiteral(t, i, word, val) ==
  IF i + Len(word) - 1 <= Len(t) /\ SubSeq(t, i, i + Len(word) - 1) = word
  THEN ParseOk(val, i + Len(word))
  ELSE ParseFail

RECURSIVE ParseValue(_, _)
RECURSIVE ParseElements(_, _, _)
RECURSIVE ParseMembers(_, _, _)

ParseElements(t, i, acc) ==
  LET r == ParseValue(t, i)
  IN IF ~r.ok THEN ParseFail
     ELSE LET k == SkipWs(t, r.next)
              xs == Append(acc, r.val)
          IN CASE At(t, k) = "," -> ParseElements(t, SkipWs(t, k + 1), xs)
               [] At(t, k) = "]" -> ParseOk(Arr(xs), k + 1)
               [] OTHER -> ParseFail

ParseMembers(t, i, acc) ==
  IF At(t, i) # DQ THEN ParseFail
  ELSE LET key == ParseString(t, i)
       IN IF ~key.ok THEN ParseFail
          ELSE LET c == SkipWs(t, key.next)
               IN IF At(t, c) # ":" THEN ParseFail
                  ELSE LET r == ParseValue(t, SkipWs(t, c + 1))
                       IN IF ~r.ok THEN ParseFail
                          ELSE LET k == SkipWs(t, r.next)
                                   ms == Append(acc, [k |-> key.val.v, v |-> r.val])
                               IN CASE At(t, k) = "," ->
                                         ParseMembers(t, SkipWs(t, k + 1), ms)
                                    [] At(t, k) = "}" -> ParseOk(Obj(ms), k + 1)
                                    [] OTHER -> ParseFail

ParseValue(t, i) ==
  LET ch == At(t, i)
  IN CASE ch = DQ -> ParseString(t, i)
       [] ch = "{" ->
            LET j == SkipWs(t, i + 1)
            IN IF At(t, j) = "}" THEN ParseOk(Obj(<<>>), j + 1)
               ELSE ParseMembers(t, j, <<>>)
       [] ch = "[" ->
            LET j == SkipWs(t, i + 1)
            IN IF At(t, j) = "]" THEN ParseOk(Arr(<<>>), j + 1)
               ELSE ParseElements(t, j, <<>>)
       [] IsDigit(ch) -> ParseNumber(t, i)
       [] ch = "n" -> ParseLiteral(t, i, <<"n", "u", "l", "l">>, Null)
       [] ch = "t" -> ParseLiteral(t, i, <<"t", "r", "u", "e">>, Bool(TRUE))
       [] ch = "f" -> ParseLiteral(t, i, <<"f", "a", "l", "s", "e">>, Bool(FALSE))
       [] OTHER -> ParseFail

\* JSON.parse(t): one value, whitespace around it, nothing else
JSONParse(t) ==
  LET r == ParseValue(t, SkipWs(t, 1))
  IN IF r.ok /\ SkipWs(t, r.next) = Len(t) + 1 THEN r ELSE ParseFail

\* ------------------------------------------------------------------------
\* extractJson
\* ------------------------------------------------------------------------

\* text.replace(/[<ldquo><rdquo>]/g, '"').replace(/[<lsquo><rsquo>]/g, "'")
Sanitize(text) ==
  [i \in 1..Len(text) |->
     IF text[i] \in {LDQuote, RDQuote} THEN DQ
     ELSE IF text[i] \in {LSQuote, RSQuote} THEN SQ
     ELSE text[i]]

Min(S) == CHOOSE x \in S : \A y \in S : x <= y
Max(S) == CHOOSE x \in S : \A y \in S : x >= y

\* t.indexOf(ch) counted from 1, 0 for JavaScript's -1
IndexOf(t, ch) ==
  LET hits == {i \in 1..Len(t) : t[i] = ch}
  IN IF hits = {} THEN 0 ELSE Min(hits)

LastIndexOf(t, ch) ==
  LET hits == {i \in 1..Len(t) : t[i] = ch}
  IN IF hits = {} THEN 0 ELSE Max(hits)

\* the value of `stack` after the loop body has run for index i, had the
\* loop not stopped before: "{" counted up and "}" counted down from firstBrace
StackAfter(t, firstBrace, i) ==
  Cardinality({k \in firstBrace..i : t[k] = "{"})
    - Cardinality({k \in firstBrace..i : t[k] = "}"})

\* BraceScan never finding the end: the regex is always what locates
BraceScanNever(t, firstBrace) == 0

\* the for loop over t from firstBrace: the first index at which a "}" takes
\* the depth counter back to 0, or 0 when none does (endIndex === -1)
BraceScan(t, firstBrace) ==
  LET zeros == {i \in firstBrace..Len(t) :
                  t[i] = "}" /\ StackAfter(t, firstBrace, i) = 0}
  IN IF zeros = {} THEN 0 ELSE Min(zeros)

\* t.match(/\{[\s\S]*\}/): greedy, from the first "{" to the last "}" behind
\* it; <<0, 0>> when there is no match
RegexWidest(t) ==
  LET f == IndexOf(t, "{")
      l == LastIndexOf(t, "}")
  IN IF f # 0 /\ l > f THEN <<f, l>> ELSE <<0, 0>>

\* whether /,\s*([}\]])/ matches at index i
CommaMatchAt(t, i) == t[i] = "," /\ At(t, SkipWs(t, i + 1)) \in {"}", "]"}

\* t.replace(/,\s*([}\]])/g, "$1"): of every match the comma and the
\* whitespace go and the bracket stays (matches cannot overlap: behind its
\* comma a match holds no other comma)
StripTrailingCommas(t) ==
  LET dropped == {k \in 1..Len(t) :
                    \E i \in 1..k :
                      /\ CommaMatchAt(t, i)
                      /\ \A m \in (i + 1)..k : IsSpace(t[m])}
      indexed == [i \in 1..Len(t) |-> <<i, t[i]>>]
      kept == SelectSeq(indexed, LAMBDA p : p[1] \notin dropped)
  IN [i \in 1..Len(kept) |-> kept[i][2]]

\* t.replace(/[\u0000-\u001F]+/g, "")
StripControl(t) == SelectSeq(t, LAMBDA ch : ~IsControl(ch))

ErrNoObject == "LLM returned unexpected format (no JSON object found)"
ErrNoClosingBrace == "LLM returned unexpected format (could not locate closing brace)"
ErrParseFailed == "LLM returned unexpected format (JSON.parse failed)"

Returned(val) == [ok |-> TRUE, val |-> val, message |-> "", hasRaw |-> FALSE, raw |-> <<>>]
\* new Error(message), without and with e.raw = text
Thrown(message) ==
  [ok |-> FALSE, val |-> Undefined, message |-> message, hasRaw |-> FALSE, raw |-> <<>>]
ThrownWithRaw(message, text) ==
  [ok |-> FALSE, val |-> Undefined, message |-> message, hasRaw |-> TRUE, raw |-> text]

\* the substring the brace scan or the regex isolates; <<>> stands for the
\* two errors thrown before it (a located substring is never empty)
ExtractSpan(text) ==
  LET t == Sanitize(text)
      firstBrace == IndexOf(t, "{")
      endIndex == IF firstBrace = 0 THEN 0 ELSE BraceScan(t, firstBrace)
      m == RegexWidest(t)
  IN IF firstBrace = 0 THEN <<>>
     ELSE IF endIndex = 0 THEN
       (IF m[1] = 0 THEN <<>> ELSE SubSeq(t, m[1], m[2]))
     ELSE SubSeq(t, firstBrace, endIndex)

extractJson(text) ==
  LET t == Sanitize(text)
      span == ExtractSpan(text)
      stripped == StripTrailingCommas(span)
      first == JSONParse(stripped)
      second == JSONParse(StripControl(stripped))
  IN IF IndexOf(t, "{") = 0 THEN Thrown(ErrNoObject)
     ELSE IF span = <<>> THEN Thrown(ErrNoClosingBrace)
     ELSE IF first.ok THEN Returned(first.val)
     ELSE IF second.ok THEN Returned(second.val)
     ELSE ThrownWithRaw(ErrParseFailed, text)

\* ------------------------------------------------------------------------
\* Model responses: JSON written out character by character
\* ------------------------------------------------------------------------

RECURSIVE Join(_, _)
Join(parts, sep) ==
  IF parts = <<>> THEN <<>>
  ELSE IF Len(parts) = 1 THEN parts[1]
  ELSE parts[1] \o sep \o Join(Tail(parts), sep)

JStr(cs) == <<DQ>> \o cs \o <<DQ>>
JMember(key, valueText) == JStr(key) \o <<":">> \o valueText
JObj(members) == <<"{">> \o Join(members, <<",">>) \o <<"}">>
JArr(items) == <<"[">> \o Join(items, <<",">>) \o <<"]">>
JStrs(css) == JArr([i \in 1..Len(css) |-> JStr(css[i])])

KUrl == <<"u", "r", "l">>
KTitle == <<"t", "i", "t", "l", "e">>
KSummary == <<"s", "u", "m", "m", "a", "r", "y">>
KKeyEntities == <<"k", "e", "y", "_", "e", "n", "t", "i", "t", "i", "e", "s">>
KPeople == <<"p", "e", "o", "p", "l", "e">>
KOrganizations ==
  <<"o", "r", "g", "a", "n", "i", "z", "a", "t", "i", "o", "n", "s">>
KLocations == <<"l", "o", "c", "a", "t", "i", "o", "n", "s">>
KSections == <<"s", "e", "c", "t", "i", "o", "n", "s">>
KQuiz == <<"q", "u", "i", "z">>
KRelatedTopics ==
  <<"r", "e", "l", "a", "t", "e", "d", "_", "t", "o", "p", "i", "c", "s">>
KQuestion == <<"q", "u", "e", "s", "t", "i", "o", "n">>
KOptions == <<"o", "p", "t", "i", "o", "n", "s">>
KAnswer == <<"a", "n", "s", "w", "e", "r">>
KDifficulty == <<"d", "i", "f", "f", "i", "c", "u", "l", "t", "y">>
KExplanation == <<"e", "x", "p", "l", "a", "n", "a", "t", "i", "o", "n">>

Easy == <<"e", "a", "s", "y">>
Hard == <<"h", "a", "r", "d">>

\* one quiz entry as the prompt's schema asks for it
JQuestion(question, options, answer, difficulty, explanation) ==
  JObj(<<JMember(KQuestion, JStr(question)),
         JMember(KOptions, JStrs(options)),
         JMember(KAnswer, JStr(answer)),
         JMember(KDifficulty, JStr(difficulty)),
         JMember(KExplanation, JStr(explanation))>>)

JQ1 == JQuestion(<<"Q", "1">>, <<<<"a">>, <<"b">>, <<"c">>, <<"d">>, <<"e">>>>,
                 <<"a">>, Easy, <<"x">>)
\* the question text of JQ1 again, with other options
JQ1Again == JQuestion(<<"Q", "1">>, <<<<"d">>, <<"a">>>>, <<"d">>, Hard, <<"y">>)
JQ2 == JQuestion(<<"Q", "2">>, <<<<"b">>, <<"b">>, <<"a">>>>, <<"b">>, Hard, <<"y">>)
JQ3 == JQuestion(<<"Q", "3">>, <<<<"c">>, <<"a">>, <<"d">>, <<"b">>>>, <<"c">>, Easy, <<"z">>)
JQ4 == JObj(<<JMember(KQuestion, JStr(<<"Q", "4">>))>>)
\* the question text of JQ1 in lower case
JQ1Lower == JQuestion(<<"q", "1">>, <<<<"a">>, <<"b">>>>, <<"b">>, Easy, <<"w">>)

Prose == <<"S", "u", "r", "e", ":", NL>>

\* commentary, then a record with every field of the schema, then commentary
TextFull ==
  Prose \o
  JObj(<<JMember(KUrl, JStr(<<"u", "X">>)),
         JMember(KTitle, JStr(<<"t", "X">>)),
         JMember(KSummary, JStr(<<"s", "1">>)),
         JMember(KKeyEntities,
                 JObj(<<JMember(KPeople, JStrs(<<<<"p">>>>)),
                        JMember(KOrganizations, JArr(<<>>)),
                        JMember(KLocations, JArr(<<>>))>>)),
         JMember(KSections, JStrs(<<<<"m", "1">>>>)),
         JMember(KQuiz, JArr(<<JQ1, JQ2>>)),
         JMember(KRelatedTopics, JStrs(<<<<"r", "1">>>>))>>) \o
  <<NL, "o", "k">>

\* the same question text twice in one response
TextRepeat == JObj(<<JMember(KQuiz, JArr(<<JQ1, JQ1Again>>))>>)

\* other metadata; repeats Q1, then Q3 twice, then Q4; trailing commas
TextMore ==
  <<"{">> \o
  JMember(KSummary, JStr(<<"s", "2">>)) \o <<",">> \o
  JMember(KSections, JStrs(<<<<"m", "2">>>>)) \o <<",">> \o
  JMember(KRelatedTopics, JStrs(<<<<"r", "2">>>>)) \o <<",">> \o
  JMember(KQuiz, <<"[">> \o Join(<<JQ1Again, JQ3, JQ3, JQ4>>, <<",">>) \o <<",", " ", "]">>) \o
  <<",", NL, "}">>

\* {"quiz":[{"question":"Q1","options":["a","b","c","d","e"],...},]}
TextScenario == <<"{">> \o JMember(KQuiz, <<"[">> \o JQ1 \o <<",", "]">>) \o <<"}">>

\* typographic quotes around the strings, a line break inside one
TextSmart ==
  <<"{", LDQuote>> \o KSummary \o <<RDQuote, ":", LDQuote, "s", NL, "3", RDQuote, "}">>

TextEmptyObject == <<"{", "}">>

\* entries without question text: none, and the empty string; a null
\* summary and an empty list of sections
TextNoQuestion ==
  JObj(<<JMember(KSummary, <<"n", "u", "l", "l">>),
         JMember(KSections, JArr(<<>>)),
         JMember(KQuiz,
                 JArr(<<JObj(<<JMember(KOptions, JStrs(<<<<"a">>>>))>>),
                        JObj(<<JMember(KQuestion, JStr(<<>>))>>)>>))>>)

\* no "{" at all
TextNoBrace == <<"s", "o", "r", "r", "y">>

\* cut off before any "}"
TextCutOff == Prose \o <<"{">> \o JMember(KQuiz, <<"[">>)

\* balanced braces around something JSON.parse rejects
TextGarbled == <<"{">> \o JStr(KQuiz) \o <<" ", "[", "}">>

\* "quiz" is not an array
TextQuizString == JObj(<<JMember(KQuiz, JStr(<<"n", "o", "n", "e">>))>>)

\* an entry of "quiz" is null
TextNullEntry == JObj(<<JMember(KQuiz, JArr(<<<<"n", "u", "l", "l">>, JQ2>>))>>)

\* "options" is a number
TextOptionsNumber ==
  JObj(<<JMember(KQuiz,
                 JArr(<<JObj(<<JMember(KQuestion, JStr(<<"Q", "5">>)),
                               JMember(KOptions, <<"7">>)>>)>>))>>)

\* three questions
TextThree == JObj(<<JMember(KQuiz, JArr(<<JQ1, JQ2, JQ3>>))>>)

\* four candidates: Q1 and Q2 once more, Q1 in lower case and Q4
TextFour == JObj(<<JMember(KQuiz, JArr(<<JQ1Again, JQ1Lower, JQ2, JQ4>>))>>)

Texts ==
  <<TextFull, TextRepeat, TextMore, TextScenario, TextSmart, TextEmptyObject,
    TextNoQuestion, TextNoBrace, TextCutOff, TextGarbled, TextQuizString,
    TextNullEntry, TextOptionsNumber, TextThree, TextFour>>

\* extractJson of every text of the catalogue
Extracted == [i \in 1..Len(Texts) |-> extractJson(Texts[i])]

\* a response is 0, the invocation raising (model.generateContent rejects or
\* response.text() throws), or the index of the text it returns
Raises == 0
Responses == 0..Len(Texts)

\* ------------------------------------------------------------------------
\* Requests and the state of the module
\* ------------------------------------------------------------------------

MaxCount == 5
MaxFallbackLen == 2

RequestA ==
  [url |-> Str(<<"u", "A">>), title |-> Str(<<"t", "A">>),
   article_text |-> Str(<<"x", "A">>),
   sections |-> Arr(<<Str(<<"i", "n", "t", "r", "o">>)>>)]
RequestB ==
  [url |-> Str(<<"u", "B">>), title |-> Str(<<"t", "B">>),
   article_text |-> Str(<<>>), sections |-> Arr(<<>>)]
Requests == {RequestA, RequestB}

VARIABLES
  configured,    \* genAI && process.env.GEMINI_API_KEY
  fallbackLen,   \* how many questions fallbackQuiz makes
  calls,         \* the calls of generateQuizPayload: their arguments and locals
  ex,            \* a call of extractJson on its own: its argument and locals
  rq,            \* a call of queryWithRetry: its arguments and locals
  auth,          \* the users and otps tables and the requests to routes/auth.js
  exam           \* a mounted QuizMode page: its state, timers and promises

vars == <<configured, fallbackLen, calls, ex, rq, auth, exam>>

NoRecord ==
  [url |-> Undefined, title |-> Undefined, summary |-> Undefined,
   key_entities |-> Undefined, sections |-> Undefined, quiz |-> <<>>,
   related_topics |-> Undefined]

\* no call of extractJson on its own
NoExtraction ==
  [pc |-> "none", lead |-> <<>>, plain |-> <<>>, object |-> <<>>,
   trail |-> <<>>, text |-> <<>>, span |-> <<>>, out |-> Thrown("")]

\* no call of queryWithRetry
NoQuery ==
  [pc |-> "none", retries |-> 0, attempt |-> 0, backoff |-> 0,
   executed |-> <<>>, waited |-> <<>>, result |-> "none"]

\* no request to routes/auth.js
NoAuth == [users |-> <<>>, otps |-> <<>>, reqs |-> <<>>]

\* no QuizMode page
NoExam ==
  [mounted |-> FALSE, submitted |-> FALSE, fsExitCount |-> 0,
   tabSwitchCount |-> 0, left |-> 0, webcam |-> "none", pending |-> 0,
   warned |-> <<>>, scheduled |-> <<>>, sent |-> <<>>, leaving |-> 0]

\* a call not made yet
Idle ==
  [pc |-> "idle", url |-> Undefined, title |-> Undefined,
   article_text |-> Undefined, sections |-> Undefined, count |-> 0,
   parsed |-> Undefined, moreParsed |-> Undefined, quiz |-> <<>>,
   attempts |-> 0, result |-> NoRecord,
   prompts |-> <<>>, received |-> <<>>, fallbackCalls |-> 0]

\* ------------------------------------------------------------------------
\* fallbackQuiz (fallback.js)
\* ------------------------------------------------------------------------

FallbackQuestion(i) ==
  [question |-> Str(<<"F", "Q", IF i = 1 THEN "1" ELSE IF i = 2 THEN "2" ELSE "n">>),
   options |-> Arr(<<Str(<<"a">>), Str(<<"b">>), Str(<<"c">>), Str(<<"d">>)>>),
   answer |-> Str(<<"a">>), difficulty |-> Str(Easy),
   explanation |-> Str(<<>>)]

fallbackQuiz(url, title, article_text, sections) ==
  [url |-> url, title |-> title, summary |-> article_text,
   key_entities |-> Obj(<<>>), sections |-> sections,
   quiz |-> [i \in 1..fallbackLen |-> FallbackQuestion(i)],
   related_topics |-> Arr(<<>>)]

\* ------------------------------------------------------------------------
\* generateQuizPayload
\* ------------------------------------------------------------------------

maxAttempts == 3
MaxOptions == 4

Take(xs, n) == SubSeq(xs, 1, IF n < Len(xs) THEN n ELSE Len(xs))

\* x.slice(0, n) of an array or a string
SliceVal(x, n) == [t |-> x.t, v |-> Take(x.v, n)]

\* Project with .slice(0, 5)
ProjectFiveOptions(q) ==
  [question |-> Get(q, KQuestion),
   options |-> SliceVal(OrElse(Get(q, KOptions), Arr(<<>>)), MaxOptions + 1),
   answer |-> Get(q, KAnswer),
   difficulty |-> Get(q, KDifficulty),
   explanation |-> Get(q, KExplanation)]

\* (q) => ({question: q.question, options: (q.options || []).slice(0, 4), ...})
Project(q) ==
  [question |-> Get(q, KQuestion),
   options |-> SliceVal(OrElse(Get(q, KOptions), Arr(<<>>)), MaxOptions),
   answer |-> Get(q, KAnswer),
   difficulty |-> Get(q, KDifficulty),
   explanation |-> Get(q, KExplanation)]

\* the callback throws a TypeError: q has no properties, or q.options is
\* truthy and has no slice method
ProjectThrows(q) ==
  \/ ~HasProps(q)
  \/ OrElse(Get(q, KOptions), Arr(<<>>)).t \notin {"arr", "str"}

\* (parsed.quiz || []).map(...) throws a TypeError: no map method, or the
\* callback throws
MapThrows(obj) ==
  LET x == OrElse(Get(obj, KQuiz), Arr(<<>>))
  IN \/ x.t # "arr"
     \/ \E i \in 1..Len(x.v) : ProjectThrows(x.v[i])

MapQuiz(obj) ==
  LET x == OrElse(Get(obj, KQuiz), Arr(<<>>))
  IN [i \in 1..Len(x.v) |-> Project(x.v[i])]

\* basePrompt(qCount, extra): what the template is filled with; `previous`
\* is the listing behind "Previously generated questions:", absent in round 0
basePrompt(st, qCount, previous) ==
  [url |-> st.url, title |-> st.title, article_text |-> st.article_text,
   qCount |-> qCount, previous |-> previous]

NoListing == [listed |-> FALSE, lines |-> <<>>]
\* Listing numbering its lines from 0
ListingNumberedFromZero(quiz) ==
  [listed |-> TRUE,
   lines |-> [i \in 1..Len(quiz) |-> [n |-> i - 1, question |-> quiz[i].question]]]

\* quiz.map((q, i) => `- ${i + 1}. ${q.question}`).join("\n") || "None"
Listing(quiz) ==
  [listed |-> TRUE,
   lines |-> [i \in 1..Len(quiz) |-> [n |-> i, question |-> quiz[i].question]]]

\* new Set(quiz.map((q) => q.question)), in insertion order
SeenIn(quiz) == [i \in 1..Len(quiz) |-> quiz[i].question]
Has(seen, x) == \E i \in 1..Len(seen) : SameValueZero(seen[i], x)

\* Merge without the test of mq.question itself
RECURSIVE MergeAnyText(_, _, _, _, _)
MergeAnyText(quiz, seen, moreQuiz, i, count) ==
  IF i > Len(moreQuiz) THEN quiz
  ELSE IF ~Has(seen, moreQuiz[i].question)
  THEN IF Len(quiz) + 1 >= count THEN Append(quiz, moreQuiz[i])
       ELSE MergeAnyText(Append(quiz, moreQuiz[i]),
                         Append(seen, moreQuiz[i].question),
                         moreQuiz, i + 1, count)
  ELSE MergeAnyText(quiz, seen, moreQuiz, i + 1, count)

\* Merge with quiz.unshift: what is accepted goes in front of the quiz
MergeInFront(quiz, seen, moreQuiz, i, count) ==
  LET kept == [n \in 1..Len(moreQuiz) |->
                 IF Truthy(moreQuiz[n].question) THEN moreQuiz[n]
                 ELSE [moreQuiz[n] EXCEPT !.question = Null]]
      merged == MergeAnyText(quiz, Append(seen, Null), kept, i, count)
  IN SubSeq(merged, Len(quiz) + 1, Len(merged)) \o quiz

\* for (const mq of moreQuiz) { if (mq.question && !seen.has(mq.question)) ... }
RECURSIVE Merge(_, _, _, _, _)
Merge(quiz, seen, moreQuiz, i, count) ==
  IF i > Len(moreQuiz) THEN quiz
  ELSE IF Truthy(moreQuiz[i].question) /\ ~Has(seen, moreQuiz[i].question)
  THEN IF Len(quiz) + 1 >= count THEN Append(quiz, moreQuiz[i])
       ELSE Merge(Append(quiz, moreQuiz[i]), Append(seen, moreQuiz[i].question),
                  moreQuiz, i + 1, count)
  ELSE Merge(quiz, seen, moreQuiz, i + 1, count)

EmptyEntities ==
  Obj(<<[k |-> KPeople, v |-> Arr(<<>>)], [k |-> KOrganizations, v |-> Arr(<<>>)],
        [k |-> KLocations, v |-> Arr(<<>>)]>>)

\* ReturnRecord reading the metadata of the latest parsed response
ReturnRecordLatestRound(st) ==
  LET latest == IF st.moreParsed.t = "obj" THEN st.moreParsed ELSE st.parsed
  IN [url |-> st.url,
      title |-> st.title,
      summary |-> OrElse(Get(latest, KSummary), Str(<<>>)),
      key_entities |-> OrElse(Get(latest, KKeyEntities), EmptyEntities),
      sections |-> OrElse(Get(latest, KSections), st.sections),
      quiz |-> Take(st.quiz, st.count),
      related_topics |-> OrElse(Get(latest, KRelatedTopics), Arr(<<>>))]

\* ReturnRecord taking url and title from round 0's object when it has them
ReturnRecordParsedUrl(st) ==
  [url |-> OrElse(Get(st.parsed, KUrl), st.url),
   title |-> OrElse(Get(st.parsed, KTitle), st.title),
   summary |-> OrElse(Get(st.parsed, KSummary), Str(<<>>)),
   key_entities |-> OrElse(Get(st.parsed, KKeyEntities), EmptyEntities),
   sections |-> OrElse(Get(st.parsed, KSections), st.sections),
   quiz |-> Take(st.quiz, st.count),
   related_topics |-> OrElse(Get(st.parsed, KRelatedTopics), Arr(<<>>))]

\* quiz.slice(0, count) and the record returned on the model path
ReturnRecord(st) ==
  [url |-> st.url,
   title |-> st.title,
   summary |-> OrElse(Get(st.parsed, KSummary), Str(<<>>)),
   key_entities |-> OrElse(Get(st.parsed, KKeyEntities), EmptyEntities),
   sections |-> OrElse(Get(st.parsed, KSections), st.sections),
   quiz |-> Take(st.quiz, st.count),
   related_topics |-> OrElse(Get(st.parsed, KRelatedTopics), Arr(<<>>))]

Return(st) == [st EXCEPT !.result = ReturnRecord(st), !.pc = "done"]

\* Fallback handing fallbackQuiz the sections round 0 parsed, when it did
FallbackWithParsedSections(st) ==
  [st EXCEPT !.result =
               fallbackQuiz(st.url, st.title, st.article_text,
                            IF HasProps(st.parsed)
                            THEN OrElse(Get(st.parsed, KSections), st.sections)
                            ELSE st.sections),
             !.fallbackCalls = @ + 1,
             !.pc = "done"]

\* return fallbackQuiz(url, title, article_text, sections)
Fallback(st) ==
  [st EXCEPT !.result = fallbackQuiz(st.url, st.title, st.article_text, st.sections),
             !.fallbackCalls = @ + 1,
             !.pc = "done"]

\* Handler with the projection of a follow-up round outside every try
HandlerProjectionUncaught(site) ==
  IF site = "extractMore" THEN "break"
  ELSE IF site = "projectMore" THEN "propagate"
  ELSE "fallback"

\* Handler with round 0's parse failure handled like a follow-up's
HandlerRound0Breaks(site) ==
  IF site \in {"extract0", "extractMore"} THEN "break" ELSE "fallback"

\* Handler without the inner try: a follow-up's parse failure reaches the
\* outer catch
HandlerNoInnerTry(site) == "fallback"

\* what becomes of an exception raised at a place of the function body: the
\* inner try of the loop covers extractJson(moreText) alone and breaks; the
\* outer try covers the rest of the body behind getGenerativeModel
Handler(site) == IF site = "extractMore" THEN "break" ELSE "fallback"

Raise(st, site) ==
  CASE Handler(site) = "break" -> Return(st)
    [] Handler(site) = "fallback" -> Fallback(st)
    [] OTHER -> [st EXCEPT !.pc = "threw"]

\* LoopOrReturn with attempts <= maxAttempts
LoopOrReturnOneMore(st) ==
  IF Len(st.quiz) < st.count /\ st.attempts <= maxAttempts
  THEN [st EXCEPT !.attempts = @ + 1,
                  !.prompts = Append(@, basePrompt(st, st.count - Len(st.quiz),
                                                   Listing(st.quiz))),
                  !.pc = "more"]
  ELSE Return(st)

\* LoopOrReturn with quiz.length <= count
LoopOrReturnWhileAtMost(st) ==
  IF Len(st.quiz) <= st.count /\ st.attempts < maxAttempts
  THEN [st EXCEPT !.attempts = @ + 1,
                  !.prompts = Append(@, basePrompt(st, st.count - Len(st.quiz),
                                                   Listing(st.quiz))),
                  !.pc = "more"]
  ELSE Return(st)

\* LoopOrReturn with maxAttempts one less
LoopOrReturnTwoAttempts(st) ==
  IF Len(st.quiz) < st.count /\ st.attempts < maxAttempts - 1
  THEN [st EXCEPT !.attempts = @ + 1,
                  !.prompts = Append(@, basePrompt(st, st.count - Len(st.quiz),
                                                   Listing(st.quiz))),
                  !.pc = "more"]
  ELSE Return(st)

\* the while condition, and either the head of the loop body up to the
\* await of model.generateContent, or the return behind the loop
LoopOrReturn(st) ==
  IF Len(st.quiz) < st.count /\ st.attempts < maxAttempts
  THEN [st EXCEPT !.attempts = @ + 1,
                  !.prompts = Append(@, basePrompt(st, st.count - Len(st.quiz),
                                                   Listing(st.quiz))),
                  !.pc = "more"]
  ELSE Return(st)

\* Begin without the check of the key
BeginWithoutKeyCheck(req, count) ==
  LET st == [Idle EXCEPT !.url = req.url, !.title = req.title,
                         !.article_text = req.article_text,
                         !.sections = req.sections, !.count = count]
  IN [st EXCEPT !.prompts = <<basePrompt(st, count, NoListing)>>,
                !.pc = "round0"]

\* the call up to its first await
Begin(req, count) ==
  LET st == [Idle EXCEPT !.url = req.url, !.title = req.title,
                         !.article_text = req.article_text,
                         !.sections = req.sections, !.count = count]
  IN IF ~configured THEN Fallback(st)
     ELSE [st EXCEPT !.prompts = <<basePrompt(st, count, NoListing)>>,
                     !.pc = "round0"]

\* from the first await to the next one or to the return
AfterRound0(st, r) ==
  LET got == [st EXCEPT !.received = Append(@, r)]
      parsed == Extracted[r].val
      withQuiz == [got EXCEPT !.parsed = parsed,
                              !.quiz = Take(MapQuiz(parsed), st.count),
                              !.attempts = 0]
  IN IF r = Raises THEN Raise(got, "invoke0")
     ELSE IF ~Extracted[r].ok THEN Raise(got, "extract0")
     ELSE IF MapThrows(parsed) THEN Raise([got EXCEPT !.parsed = parsed], "project0")
     ELSE LoopOrReturn(withQuiz)

\* AfterFollowUp with a parse failure going on to the next round
AfterFollowUpRetries(st, r, seen) ==
  LET got == [st EXCEPT !.received = Append(@, r)]
      moreParsed == Extracted[r].val
      parsedMore == [got EXCEPT !.moreParsed = moreParsed]
  IN IF r = Raises THEN Raise(got, "invokeMore")
     ELSE IF ~Extracted[r].ok THEN LoopOrReturn(got)
     ELSE IF MapThrows(moreParsed) THEN Raise(parsedMore, "projectMore")
     ELSE LoopOrReturn([parsedMore EXCEPT
                          !.quiz = Merge(st.quiz, seen, MapQuiz(moreParsed), 1, st.count)])

\* from an await inside the loop to the next one or to the return; `seen`
\* is the duplicate tracker built for this round
AfterFollowUp(st, r, seen) ==
  LET got == [st EXCEPT !.received = Append(@, r)]
      moreParsed == Extracted[r].val
      parsedMore == [got EXCEPT !.moreParsed = moreParsed]
  IN IF r = Raises THEN Raise(got, "invokeMore")
     ELSE IF ~Extracted[r].ok THEN Raise(got, "extractMore")
     ELSE IF MapThrows(moreParsed) THEN Raise(parsedMore, "projectMore")
     ELSE LoopOrReturn([parsedMore EXCEPT
                          !.quiz = Merge(st.quiz, seen, MapQuiz(moreParsed), 1, st.count)])

\* a duplicate tracker kept at module level: the questions of every call
RECURSIVE SeenUpTo(_)
SeenUpTo(n) == IF n = 0 THEN <<>> ELSE SeenUpTo(n - 1) \o SeenIn(calls[n].quiz)
SeenByAllCalls(c) == SeenUpTo(Cardinality(DOMAIN calls))

\* the duplicate tracker of call c: built from its own quiz
Seen(c) == SeenIn(calls[c].quiz)

Init ==
  /\ configured \in BOOLEAN
  /\ fallbackLen \in 0..MaxFallbackLen
  /\ calls = [c \in {1} |-> Idle]
  /\ ex = NoExtraction
  /\ rq = NoQuery
  /\ auth = NoAuth
  /\ exam = NoExam

\* generateQuizPayload({url, title, article_text, sections, count}) is called
Start(c, counts) ==
  /\ calls[c].pc = "idle"
  /\ \E req \in Requests, count \in counts :
       calls' = [calls EXCEPT ![c] = Begin(req, count)]
  /\ UNCHANGED <<configured, fallbackLen, ex, rq, auth, exam>>

\* the model answers round 0 of call c
Round0(c, answers) ==
  /\ calls[c].pc = "round0"
  /\ \E r \in answers : calls' = [calls EXCEPT ![c] = AfterRound0(calls[c], r)]
  /\ UNCHANGED <<configured, fallbackLen, ex, rq, auth, exam>>

\* the model answers a follow-up round of call c
FollowUp(c, answers) ==
  /\ calls[c].pc = "more"
  /\ \E r \in answers :
       calls' = [calls EXCEPT ![c] = AfterFollowUp(calls[c], r, Seen(c))]
  /\ UNCHANGED <<configured, fallbackLen, ex, rq, auth, exam>>

Next ==
  \/ \E c \in DOMAIN calls : Start(c, 1..MaxCount)
  \/ \E c \in DOMAIN calls : Round0(c, Responses)
  \/ \E c \in DOMAIN calls : FollowUp(c, Responses)

\* one call, every response of the catalogue
Spec == Init /\ [][Next]_vars

\* the same, with every call made and every awaited invocation returning or
\* raising in the end
FairSpec == Spec /\ WF_vars(Next)

\* Concurrent calls, interleaved at their awaits.
NumCalls == 2
\* the count every one of them asks for
ConcCount == 3
\* the invocation raising, TextFull, TextMore
ConcResponses == {Raises, 1, 3}

InitConc ==
  /\ configured \in BOOLEAN
  /\ fallbackLen \in 0..MaxFallbackLen
  /\ calls = [c \in 1..NumCalls |-> Idle]
  /\ ex = NoExtraction
  /\ rq = NoQuery
  /\ auth = NoAuth
  /\ exam = NoExam

NextConc ==
  \/ \E c \in DOMAIN calls : Start(c, {ConcCount})
  \/ \E c \in DOMAIN calls : Round0(c, ConcResponses)
  \/ \E c \in DOMAIN calls : FollowUp(c, ConcResponses)

SpecConc == InitConc /\ [][NextConc]_vars

\* ------------------------------------------------------------------------
\* extractJson on its own: prose, an object, prose
\* ------------------------------------------------------------------------

MaxStrLen == 2

\* what a string value is made of
StrChars == {"a", "{", "}", ",", "]", RDQuote}

RECURSIVE SeqsUpTo(_, _)
SeqsUpTo(chars, n) ==
  IF n = 0 THEN {<<>>}
  ELSE LET shorter == SeqsUpTo(chars, n - 1)
       IN shorter \cup {Append(cs, ch) : cs \in shorter, ch \in chars}

Strings == SeqsUpTo(StrChars, MaxStrLen)

\* the prose in front of the object and behind it
Leads == {<<>>, <<"x">>, <<"{">>, <<"x", "}">>, <<LDQuote, "x", RDQuote>>}
Trails == {<<>>, <<"x">>, <<"}">>, <<"{", "}">>, <<RDQuote>>}

Kinds == {"str", "arr", "obj"}

\* the text of an object {"k": value} around the string cs, the value being
\* the string, an array or an object holding it; tc puts a comma in front of
\* every closing bracket
Comma(tc) == IF tc THEN <<",">> ELSE <<>>
ValueText(kind, cs, tc) ==
  CASE kind = "str" -> JStr(cs)
    [] kind = "arr" -> <<"[", "1", ",">> \o JStr(cs) \o Comma(tc) \o <<"]">>
    [] kind = "obj" -> <<"{">> \o JMember(<<"k">>, JStr(cs)) \o Comma(tc) \o <<"}">>
ObjectText(kind, cs, tc) ==
  <<"{">> \o JMember(<<"k">>, ValueText(kind, cs, tc)) \o Comma(tc) \o <<"}">>

\* extractJson(text) is about to run on prose alone, or on prose around an
\* object written with or without trailing commas
Composed(lead, kind, cs, tc, trail) ==
  [NoExtraction EXCEPT
     !.pc = "text", !.lead = lead, !.trail = trail,
     !.plain = ObjectText(kind, cs, FALSE),
     !.object = ObjectText(kind, cs, tc),
     !.text = lead \o ObjectText(kind, cs, tc) \o trail]
ProseOnly(lead, trail) ==
  [NoExtraction EXCEPT !.pc = "text", !.lead = lead, !.trail = trail,
                       !.text = lead \o trail]

InitExtract ==
  /\ configured = FALSE
  /\ fallbackLen = 0
  /\ calls = [c \in {1} |-> Idle]
  /\ rq = NoQuery
  /\ auth = NoAuth
  /\ exam = NoExam
  /\ \E lead \in Leads, trail \in Trails :
       \/ ex = ProseOnly(lead, trail)
       \/ \E kind \in Kinds, cs \in Strings, tc \in BOOLEAN :
            ex = Composed(lead, kind, cs, tc, trail)

\* extractJson up to t = t.slice(firstBrace, endIndex + 1) or t = regexMatch[0]
Locate ==
  /\ ex.pc = "text"
  /\ ex' = [ex EXCEPT !.span = ExtractSpan(ex.text), !.pc = "located"]
  /\ UNCHANGED <<configured, fallbackLen, calls, rq, auth, exam>>

\* extractJson to its return or throw
Repair ==
  /\ ex.pc = "located"
  /\ ex' = [ex EXCEPT !.out = extractJson(ex.text), !.pc = "done"]
  /\ UNCHANGED <<configured, fallbackLen, calls, rq, auth, exam>>

NextExtract == Locate \/ Repair

SpecExtract == InitExtract /\ [][NextExtract]_vars

\* ------------------------------------------------------------------------
\* queryWithRetry (db/pool.js)
\* ------------------------------------------------------------------------

MaxRetries == 3
\* backoff = 200
DefaultBackoff == 200

UpperCase ==
  <<"A", "B", "C", "D", "E", "F", "G", "H", "I", "J", "K", "L", "M",
    "N", "O", "P", "Q", "R", "S", "T", "U", "V", "W", "X", "Y", "Z">>
LowerCase ==
  <<"a", "b", "c", "d", "e", "f", "g", "h", "i", "j", "k", "l", "m",
    "n", "o", "p", "q", "r", "s", "t", "u", "v", "w", "x", "y", "z">>

\* a letter without its case, as the i flag of a regex compares it
FoldCase(ch) ==
  IF \E i \in 1..26 : UpperCase[i] = ch
  THEN LowerCase[CHOOSE i \in 1..26 : UpperCase[i] = ch]
  ELSE ch
Fold(t) == [i \in 1..Len(t) |-> FoldCase(t[i])]

\* whether word occurs in t
Contains(t, word) ==
  \E i \in 1..(Len(t) - Len(word) + 1) : SubSeq(t, i, i + Len(word) - 1) = word

\* the alternatives of /terminat|connection (reset|terminated)|ECONNRESET|ETIMEDOUT/i
TransientPatterns ==
  {<<"t", "e", "r", "m", "i", "n", "a", "t">>,
   <<"c", "o", "n", "n", "e", "c", "t", "i", "o", "n", " ", "r", "e", "s", "e", "t">>,
   <<"c", "o", "n", "n", "e", "c", "t", "i", "o", "n", " ", "t", "e", "r", "m", "i", "n", "a", "t", "e", "d">>,
   <<"E", "C", "O", "N", "N", "R", "E", "S", "E", "T">>,
   <<"E", "T", "I", "M", "E", "D", "O", "U", "T">>}

\* the regex without its i flag
TransientCaseSensitive(message) ==
  \E word \in TransientPatterns : Contains(message, word)

\* /terminat|connection (reset|terminated)|ECONNRESET|ETIMEDOUT/i.test(err.message)
Transient(message) ==
  \E word \in TransientPatterns : Contains(Fold(message), Fold(word))

\* the messages of the errors pool.query rejects with
MsgTerminated ==
  <<"C", "o", "n", "n", "e", "c", "t", "i", "o", "n", " ", "t", "e", "r", "m", "i", "n", "a", "t", "e", "d">>
MsgReset ==
  <<"r", "e", "a", "d", " ", "E", "C", "O", "N", "N", "R", "E", "S", "E", "T">>
MsgTimedOut ==
  <<"c", "o", "n", "n", "e", "c", "t", " ", "e", "t", "i", "m", "e", "d", "o", "u", "t">>
MsgPeer ==
  <<"C", "o", "n", "n", "e", "c", "t", "i", "o", "n", " ", "r", "e", "s", "e", "t", " ", "b", "y", " ", "p", "e", "e", "r">>
MsgSyntax == <<"s", "y", "n", "t", "a", "x", " ", "e", "r", "r", "o", "r">>
MsgTimeout ==
  <<"t", "i", "m", "e", "o", "u", "t", " ", "e", "x", "c", "e", "e", "d", "e", "d">>
Messages ==
  <<MsgTerminated, MsgReset, MsgTimedOut, MsgPeer, MsgSyntax, MsgTimeout>>

\* an execution of query(text, params) resolves, written 0, or rejects with
\* the error whose message has this index
Resolves == 0
Outcomes == 0..Len(Messages)

\* queryWithRetry(text, params, retries, backoff) up to its first await
BeginQuery(retries, backoff) ==
  [NoQuery EXCEPT !.pc = "query", !.retries = retries, !.backoff = backoff]

\* from await query(text, params) to the return, the throw or the await of
\* the timer
AfterQuery(st, o) ==
  LET ran == [st EXCEPT !.executed = Append(@, o)]
  IN IF o = Resolves THEN [ran EXCEPT !.pc = "returned", !.result = "returned"]
     ELSE IF st.attempt = st.retries
     THEN [ran EXCEPT !.pc = "threw", !.result = "threw"]
     ELSE IF ~Transient(Messages[o])
     THEN [ran EXCEPT !.pc = "threw", !.result = "threw"]
     ELSE [ran EXCEPT !.pc = "sleep", !.waited = Append(@, st.backoff)]

\* the timer fires: backoff *= 2, attempt++ and the loop condition, which
\* holds since attempt was below retries
AfterSleep(st) ==
  [st EXCEPT !.backoff = 2 * @, !.attempt = @ + 1, !.pc = "query"]

InitRetry ==
  /\ configured = FALSE
  /\ fallbackLen = 0
  /\ calls = [c \in {1} |-> Idle]
  /\ ex = NoExtraction
  /\ \E retries \in 0..MaxRetries : rq = BeginQuery(retries, DefaultBackoff)
  /\ auth = NoAuth
  /\ exam = NoExam

\* an execution of the query ends
Execute ==
  /\ rq.pc = "query"
  /\ \E o \in Outcomes : rq' = AfterQuery(rq, o)
  /\ UNCHANGED <<configured, fallbackLen, calls, ex, auth, exam>>

\* the backoff has passed
Wake ==
  /\ rq.pc = "sleep"
  /\ rq' = AfterSleep(rq)
  /\ UNCHANGED <<configured, fallbackLen, calls, ex, auth, exam>>

NextRetry == Execute \/ Wake

SpecRetry == InitRetry /\ [][NextRetry]_vars

\* ------------------------------------------------------------------------
\* routes/auth.js: /register-verify, /forgot-password-request,
\* /forgot-password-verify, over the users and otps tables of db/init.js
\* ------------------------------------------------------------------------

NumRequests == 2
MaxOtps == 3

EmailAnn == "ann@x.io"
EmailBob == "bob@x.io"
Emails == {EmailAnn, EmailBob}
Codes == {"1234", "5678"}

RegisterVerify == "/register-verify"
ForgotRequest == "/forgot-password-request"
ForgotVerify == "/forgot-password-verify"
Routes == {RegisterVerify, ForgotRequest, ForgotVerify}

MsgInvalidOtp == "Invalid OTP"
MsgOtpExpired == "OTP expired"
MsgRegistered == "Registration successful"
MsgRegistrationFailed == "DB error / registration failed"
MsgIfExists == "If the email exists, an OTP has been sent to reset the password"
MsgMailFailed == "Failed to send OTP email. Try again."
MsgDbError == "DB error"
MsgNoUser == "User not found for this email"
MsgPasswordReset == "Password reset successful"

\* what utils/otp.js may hand out as a code
generateOtp == Codes

\* how a call of utils/mailer.js may end: resolved with success, resolved
\* without, or rejected
sendOtpEmail == {"delivered", "undelivered", "rejected"}

\* a row of users: password 0 is the one stored at the start, password r
\* the one request r carried
NoUser == [account |-> FALSE, password |-> 0]
OldUser == [account |-> TRUE, password |-> 0]

OtpRow(email, code, purpose) ==
  [email |-> email, code |-> code, purpose |-> purpose, used |-> FALSE,
   expired |-> FALSE]

\* a request not received yet
NoRequest ==
  [pc |-> "idle", route |-> "", email |-> "", code |-> "", row |-> 0,
   found |-> FALSE, status |-> 0, message |-> ""]

PurposeOf(route) == IF route = RegisterVerify THEN "REGISTER" ELSE "RESET"

\* res.status(status).json({ message })
Respond(req, status, message) ==
  [req EXCEPT !.pc = "responded", !.status = status, !.message = message]

\* the catch of the route
Caught(req) ==
  Respond(req, 500,
          IF req.route = RegisterVerify THEN MsgRegistrationFailed
          ELSE MsgDbError)

\* SELECT * FROM otps WHERE email, code, purpose, used = FALSE
\* ORDER BY created_at DESC LIMIT 1: the id of the row, 0 for none
SelectOtpRow(otps, email, code, purpose) ==
  LET ids == {id \in 1..Len(otps) :
                /\ otps[id].email = email
                /\ otps[id].code = code
                /\ otps[id].purpose = purpose
                /\ otps[id].used = FALSE}
  IN IF ids = {} THEN 0 ELSE CHOOSE id \in ids : \A other \in ids : other <= id

InitAuth ==
  /\ configured = FALSE
  /\ fallbackLen = 0
  /\ calls = [c \in {1} |-> Idle]
  /\ ex = NoExtraction
  /\ rq = NoQuery
  /\ exam = NoExam
  /\ auth = [users |-> [e \in Emails |-> IF e = EmailAnn THEN OldUser ELSE NoUser],
             otps |-> <<OtpRow(EmailAnn, "1234", "RESET"),
                        OtpRow(EmailBob, "1234", "REGISTER")>>,
             reqs |-> [r \in 1..NumRequests |-> NoRequest]]

\* a request with a valid body reaches its route
Receive ==
  \E r \in 1..NumRequests, route \in Routes, email \in Emails, code \in Codes :
    /\ auth.reqs[r].pc = "idle"
    /\ auth' = [auth EXCEPT !.reqs[r] =
                  [NoRequest EXCEPT !.pc = IF route = ForgotRequest
                                           THEN "selectUser" ELSE "selectOtp",
                                    !.route = route, !.email = email,
                                    !.code = code]]
    /\ UNCHANGED <<configured, fallbackLen, calls, ex, rq, exam>>

\* the verify routes: the SELECT on otps ends
SelectOtp ==
  \E r \in 1..NumRequests, ok \in BOOLEAN :
    LET q == auth.reqs[r]
        id == SelectOtpRow(auth.otps, q.email, q.code, PurposeOf(q.route))
    IN /\ q.pc = "selectOtp"
       /\ auth' = [auth EXCEPT !.reqs[r] =
                     IF ~ok THEN Caught(q)
                     ELSE IF id = 0 THEN Respond(q, 400, MsgInvalidOtp)
                     ELSE IF auth.otps[id].expired
                          THEN Respond(q, 400, MsgOtpExpired)
                     ELSE [q EXCEPT !.pc = "writeUser", !.row = id]]
       /\ UNCHANGED <<configured, fallbackLen, calls, ex, rq, exam>>

\* the verify routes: the INSERT ... ON CONFLICT DO UPDATE or UPDATE on
\* users ends
WriteUser ==
  \E r \in 1..NumRequests, ok \in BOOLEAN :
    LET q == auth.reqs[r]
    IN /\ q.pc = "writeUser"
       /\ auth' =
            IF ~ok THEN [auth EXCEPT !.reqs[r] = Caught(q)]
            ELSE IF q.route = RegisterVerify
              THEN [auth EXCEPT !.users[q.email] =
                                   [account |-> TRUE, password |-> r],
                                !.reqs[r].pc = "markUsed"]
            ELSE IF ~auth.users[q.email].account
              THEN [auth EXCEPT !.reqs[r] = Respond(q, 400, MsgNoUser)]
            ELSE [auth EXCEPT !.users[q.email].password = r,
                              !.reqs[r].pc = "markUsed"]
       /\ UNCHANGED <<configured, fallbackLen, calls, ex, rq, exam>>

\* the verify routes: UPDATE otps SET used = TRUE ends
MarkUsed ==
  \E r \in 1..NumRequests, ok \in BOOLEAN :
    LET q == auth.reqs[r]
    IN /\ q.pc = "markUsed"
       /\ auth' =
            IF ~ok THEN [auth EXCEPT !.reqs[r] = Caught(q)]
            ELSE [auth EXCEPT !.otps[q.row].used = TRUE,
                              !.reqs[r] =
                                Respond(q, 200,
                                        IF q.route = RegisterVerify
                                        THEN MsgRegistered ELSE MsgPasswordReset)]
       /\ UNCHANGED <<configured, fallbackLen, calls, ex, rq, exam>>

\* /forgot-password-request: the SELECT on users ends
SelectUser ==
  \E r \in 1..NumRequests, ok \in BOOLEAN :
    LET q == auth.reqs[r]
    IN /\ q.pc = "selectUser"
       /\ auth' = [auth EXCEPT !.reqs[r] =
                     IF ~ok THEN Caught(q)
                     ELSE IF ~auth.users[q.email].account
                          THEN Respond(q, 200, MsgIfExists)
                     ELSE [q EXCEPT !.pc = "insertOtp", !.found = TRUE]]
       /\ UNCHANGED <<configured, fallbackLen, calls, ex, rq, exam>>

\* /forgot-password-request: the INSERT into otps ends
InsertOtp ==
  \E r \in 1..NumRequests, ok \in BOOLEAN, code \in generateOtp :
    LET q == auth.reqs[r]
    IN /\ q.pc = "insertOtp"
       /\ Len(auth.otps) < MaxOtps
       /\ auth' =
            IF ~ok THEN [auth EXCEPT !.reqs[r] = Caught(q)]
            ELSE [auth EXCEPT !.otps = Append(@, OtpRow(q.email, code, "RESET")),
                              !.reqs[r].pc = "sendMail"]
       /\ UNCHANGED <<configured, fallbackLen, calls, ex, rq, exam>>

\* /forgot-password-request: sendOtpEmail ends
SendMail ==
  \E r \in 1..NumRequests, outcome \in sendOtpEmail :
    LET q == auth.reqs[r]
    IN /\ q.pc = "sendMail"
       /\ auth' = [auth EXCEPT !.reqs[r] =
                     IF outcome = "rejected"
                     THEN Respond(q, 500, MsgMailFailed)
                     ELSE Respond(q, 200, MsgIfExists)]
       /\ UNCHANGED <<configured, fallbackLen, calls, ex, rq, exam>>

\* the ten minutes of a row pass
Expire ==
  \E id \in 1..Len(auth.otps) :
    /\ ~auth.otps[id].expired
    /\ auth' = [auth EXCEPT !.otps[id].expired = TRUE]
    /\ UNCHANGED <<configured, fallbackLen, calls, ex, rq, exam>>

NextAuth ==
  \/ Receive
  \/ SelectOtp
  \/ WriteUser
  \/ MarkUsed
  \/ SelectUser
  \/ InsertOtp
  \/ SendMail
  \/ Expire

SpecAuth == InitAuth /\ [][NextAuth]_vars

\* ------------------------------------------------------------------------
\* pages/QuizMode.jsx with components/Timer.jsx: one exam session
\* ------------------------------------------------------------------------

TotalSeconds == 2
StrikeBound == 4

\* submitExam(auto) of a render in which submitted was seen: a function of
\* a render keeps the state of that render, whenever it runs
submitExam(st, seen, auto) ==
  IF seen THEN st
  ELSE [st EXCEPT !.submitted = TRUE,
                  !.sent = Append(@, auto),
                  !.leaving = @ + 1]

\* the condition under which addStrike schedules the auto-submit
StrikesOut(newFs, newTab) ==
  \/ newFs >= 3
  \/ newTab >= 3
  \/ (newFs >= 1 /\ newTab >= 1)
  \/ newFs + newTab >= 3

\* addStrike(type) of the current render
addStrike(st, type) ==
  IF st.submitted THEN st
  ELSE LET newFs == IF type = "fs" THEN st.fsExitCount + 1 ELSE st.fsExitCount
           newTab == IF type = "tab" THEN st.tabSwitchCount + 1
                     ELSE st.tabSwitchCount
           total == newFs + newTab
           counted == [st EXCEPT !.fsExitCount = newFs,
                                 !.tabSwitchCount = newTab,
                                 !.warned = Append(@, total)]
       IN IF StrikesOut(newFs, newTab)
          THEN [counted EXCEPT !.pending = @ + 1,
                               !.scheduled = Append(@, total)]
          ELSE counted

\* the page is mounted: the first render and the effect that asks for the
\* webcam
InitExam ==
  /\ configured = FALSE
  /\ fallbackLen = 0
  /\ calls = [c \in {1} |-> Idle]
  /\ ex = NoExtraction
  /\ rq = NoQuery
  /\ auth = NoAuth
  /\ exam = [NoExam EXCEPT !.mounted = TRUE, !.left = TotalSeconds,
                           !.webcam = "asking"]

\* the Submit button, enabled while not submitted, is clicked
ClickSubmit ==
  /\ exam.mounted
  /\ ~exam.submitted
  /\ exam' = submitExam(exam, exam.submitted, FALSE)
  /\ UNCHANGED <<configured, fallbackLen, calls, ex, rq, auth>>

\* a second passes; at zero the Timer's effect calls onEnd of the current
\* render
Tick ==
  /\ exam.mounted
  /\ exam.left > 0
  /\ LET ticked == [exam EXCEPT !.left = @ - 1]
     IN exam' = IF ticked.left <= 0
                THEN submitExam(ticked, ticked.submitted, TRUE)
                ELSE ticked
  /\ UNCHANGED <<configured, fallbackLen, calls, ex, rq, auth>>

\* the page leaves fullscreen or the tab is left: handleFS and onStrike of
\* the current render call addStrike
Strike ==
  \E type \in {"fs", "tab"} :
    /\ exam.mounted
    /\ ~exam.submitted
    /\ exam.fsExitCount + exam.tabSwitchCount < StrikeBound
    /\ exam' = addStrike(exam, type)
    /\ UNCHANGED <<configured, fallbackLen, calls, ex, rq, auth>>

\* the 400 ms of a timeout set by addStrike pass: submitExam of the render
\* that set it runs, and in that render submitted was false
StrikeTimeout ==
  /\ exam.pending > 0
  /\ exam' = submitExam([exam EXCEPT !.pending = @ - 1], FALSE, TRUE)
  /\ UNCHANGED <<configured, fallbackLen, calls, ex, rq, auth>>

\* getUserMedia resolves
WebcamGranted ==
  /\ exam.webcam = "asking"
  /\ exam' = [exam EXCEPT !.webcam = "granted"]
  /\ UNCHANGED <<configured, fallbackLen, calls, ex, rq, auth>>

\* getUserMedia rejects: start, made by the first render, calls the
\* submitExam of the first render, where submitted is false
WebcamRefused ==
  /\ exam.webcam = "asking"
  /\ exam' = submitExam([exam EXCEPT !.webcam = "refused"], FALSE, TRUE)
  /\ UNCHANGED <<configured, fallbackLen, calls, ex, rq, auth>>

\* the 900 ms after a submission pass: nav("/result") unmounts the page;
\* timeouts and promises still pending are not cancelled
Leave ==
  /\ exam.leaving > 0
  /\ exam' = [exam EXCEPT !.leaving = @ - 1, !.mounted = FALSE]
  /\ UNCHANGED <<configured, fallbackLen, calls, ex, rq, auth>>

NextExam ==
  \/ ClickSubmit
  \/ Tick
  \/ Strike
  \/ StrikeTimeout
  \/ WebcamGranted
  \/ WebcamRefused
  \/ Leave

SpecExam == InitExam /\ [][NextExam]_vars

\* ------------------------------------------------------------------------
\* Properties of extractJson
\* ------------------------------------------------------------------------

\* extractJson ran on prose around an object
AroundObject == ex.pc # "none" /\ ex.object # <<>>
Located == ex.pc \in {"located", "done"}

\* C12: from prose, a valid JSON object and prose again, whatever characters
\* the prose and the object's string values hold, the substring extractJson
\* isolates is exactly the object's text.
C12_IsolatesTheObject ==
  (Located /\ AroundObject /\ ex.object = ex.plain) => ex.span = ex.object

\* C13: for an object written with a comma in front of its closing brackets
\* extractJson returns the data the text without those commas parses to,
\* also when a string value holds a comma followed by "}" or "]".
C13_TrailingCommasRepaired ==
  (ex.pc = "done" /\ AroundObject /\ ex.object # ex.plain
     /\ ex.lead = <<>> /\ ex.trail = <<>>) =>
    /\ ex.out.ok
    /\ ex.out.val = JSONParse(ex.plain).val

Opens(cs) == Cardinality({i \in 1..Len(cs) : cs[i] = "{"})
Closes(cs) == Cardinality({i \in 1..Len(cs) : cs[i] = "}"})

\* where a substring from the first "{" on ends in a "}" that closes as many
\* braces as were opened
MatchingEnds(t) ==
  {e \in IndexOf(t, "{")..Len(t) :
     /\ IndexOf(t, "{") # 0
     /\ t[e] = "}"
     /\ Opens(SubSeq(t, IndexOf(t, "{"), e)) = Closes(SubSeq(t, IndexOf(t, "{"), e))}

\* C14: when the first "{" has a matching "}" by depth counting the
\* isolated substring runs from that "{" to the first such "}" and nothing
\* behind it matters; the span from the first "{" to the last "}" is taken
\* only when the depth never comes back to zero.
C14_EndsAtMatchingBrace ==
  Located =>
    LET t == Sanitize(ex.text)
        f == IndexOf(t, "{")
        ends == MatchingEnds(t)
    IN /\ ends # {} =>
            \E e \in ends :
              /\ \A e2 \in ends : e <= e2
              /\ ex.span = SubSeq(t, f, e)
              /\ ex.span = ExtractSpan(SubSeq(ex.text, 1, e))
       /\ (ends = {} /\ ex.span # <<>>) =>
            /\ f # 0
            /\ \E l \in f..Len(t) :
                 /\ t[l] = "}"
                 /\ \A k \in (l + 1)..Len(t) : t[k] # "}"
                 /\ ex.span = SubSeq(t, f, l)

\* an object closed by its matching brace with another "}" in the prose
\* behind it
C14_Witness ==
  /\ Located /\ AroundObject
  /\ ex.lead = <<"x">>
  /\ ex.trail = <<"{", "}">>
  /\ ex.span = ex.object
  /\ Opens(ex.object) = 2

\* ------------------------------------------------------------------------
\* Properties of generateQuizPayload
\* ------------------------------------------------------------------------

Done(c) == calls[c].pc = "done"
\* the call returned the record built behind the loop, not fallbackQuiz's
OnModelPath(c) == Done(c) /\ calls[c].fallbackCalls = 0
Last(xs) == xs[Len(xs)]
\* the fallback record of call c's request
FallbackOf(c) ==
  fallbackQuiz(calls[c].url, calls[c].title, calls[c].article_text, calls[c].sections)
\* round 0 failed: the invocation raised or extractJson threw
Round0Failed(r) == r = Raises \/ ~Extracted[r].ok

\* C1: whatever the provider configuration and the responses, the quiz of
\* the returned record has between 0 and count entries, fallback included.
C1_QuizLengthWithinCount ==
  \A c \in DOMAIN calls :
    Done(c) => Len(calls[c].result.quiz) \in 0..calls[c].count

\* C2: no two entries of a returned quiz have the same question text, also
\* when round 0's own response repeats one.
C2_NoDuplicateQuestionText ==
  \A c \in DOMAIN calls :
    Done(c) =>
      \A i, j \in 1..Len(calls[c].result.quiz) :
        i # j => calls[c].result.quiz[i].question # calls[c].result.quiz[j].question

\* C3: generateQuizPayload never propagates an exception: a call is idle,
\* awaiting the model, or has returned a record.
C3_NeverPropagates ==
  \A c \in DOMAIN calls :
    /\ calls[c].pc \in {"idle", "round0", "more", "done"}
    /\ Done(c) => calls[c].result # NoRecord

\* a call has returned after a TypeError in the projection of a follow-up
C3_Witness ==
  \E c \in DOMAIN calls :
    /\ Done(c)
    /\ Len(calls[c].received) >= 2
    /\ Last(calls[c].received) # Raises
    /\ Extracted[Last(calls[c].received)].ok
    /\ MapThrows(Extracted[Last(calls[c].received)].val)

\* C4: when round 0 fails (the invocation raises, no "{", no closing brace,
\* or no parse after both repairs) the call returns exactly fallbackQuiz's
\* record for its request and has invoked the model once.
C4_Round0FailureFallsBack ==
  \A c \in DOMAIN calls :
    (Len(calls[c].received) >= 1 /\ Round0Failed(calls[c].received[1])) =>
      /\ Done(c)
      /\ calls[c].result = FallbackOf(c)
      /\ calls[c].fallbackCalls = 1
      /\ Len(calls[c].prompts) = 1

\* round 0's text had balanced braces around something that does not parse
C4_Witness ==
  \E c \in DOMAIN calls :
    /\ Done(c)
    /\ calls[c].received # <<>>
    /\ calls[c].received[1] # Raises
    /\ Extracted[calls[c].received[1]].message = ErrParseFailed

\* C5: when the invocation of a follow-up round raises, the loop stops, the
\* questions accumulated so far are returned and fallbackQuiz is not called.
C5_FollowUpRaiseKeepsPartial ==
  \A c \in DOMAIN calls :
    (Done(c) /\ Len(calls[c].received) >= 2 /\ Last(calls[c].received) = Raises) =>
      /\ calls[c].fallbackCalls = 0
      /\ calls[c].result = ReturnRecord(calls[c])

\* C6: without a configured provider the call returns fallbackQuiz's record
\* for its request and never invokes the model.
C6_UnconfiguredFallsBack ==
  ~configured =>
    \A c \in DOMAIN calls :
      calls[c].pc # "idle" =>
        /\ Done(c)
        /\ calls[c].result = FallbackOf(c)
        /\ calls[c].prompts = <<>>

C6_Witness == ~configured /\ \E c \in DOMAIN calls : Done(c)

\* at most 4 invocations, a follow-up only while the quiz is shorter than
\* count and fewer than 3 follow-ups were made
InvocationsBounded ==
  \A c \in DOMAIN calls :
    /\ Len(calls[c].prompts) <= 1 + 3
    /\ \A i \in 2..Len(calls[c].prompts) :
         /\ Len(calls[c].prompts[i].previous.lines) < calls[c].count
         /\ i - 2 < 3
    /\ calls[c].pc \in {"round0", "more"} =>
         Len(calls[c].received) = Len(calls[c].prompts) - 1
    /\ Done(c) => Len(calls[c].received) = Len(calls[c].prompts)

\* C7: provided each invocation returns or raises, a call terminates, after
\* at most 4 invocations (1 initial and at most 3 follow-ups); a follow-up
\* is invoked only while the quiz is shorter than count and fewer than 3
\* follow-ups were made.
C7_BoundedInvocations ==
  /\ []InvocationsBounded
  /\ (calls[1].pc \in {"round0", "more"}) ~> Done(1)

\* a call that returned after four invocations
C7_Witness == \E c \in DOMAIN calls : Done(c) /\ Len(calls[c].prompts) = 4

\* the entries of the quiz array of the response a call received i-th
SourceEntries(c, i) ==
  LET r == calls[c].received[i]
      x == IF r # Raises /\ Extracted[r].ok
           THEN OrElse(Get(Extracted[r].val, KQuiz), Arr(<<>>)) ELSE Arr(<<>>)
  IN IF x.t = "arr" THEN x.v ELSE <<>>

\* e is source entry q with q's options cut to the first min(4, k)
IsCutOf(e, q) ==
  LET src == Get(q, KOptions)
      opts == IF src.t = "arr" THEN src.v ELSE <<>>
      k == Len(opts)
  IN /\ HasProps(q)
     /\ e.question = Get(q, KQuestion)
     /\ e.answer = Get(q, KAnswer)
     /\ e.options = Arr([n \in 1..(IF k < 4 THEN k ELSE 4) |-> opts[n]])

\* C8: every entry of a returned quiz has at most 4 options, and on the
\* model path they are the first min(4, k) of the k options of its source
\* object, in the same order.
C8_OptionsAreFirstFour ==
  \A c \in DOMAIN calls :
    Done(c) =>
      \A n \in 1..Len(calls[c].result.quiz) :
        /\ Len(calls[c].result.quiz[n].options.v) <= 4
        /\ OnModelPath(c) =>
             \E i \in 1..Len(calls[c].received) :
               \E m \in 1..Len(SourceEntries(c, i)) :
                 IsCutOf(calls[c].result.quiz[n], SourceEntries(c, i)[m])

\* a returned quiz with an entry cut from 5 options to 4 and one with 3
C8_Witness ==
  \E c \in DOMAIN calls :
    /\ OnModelPath(c)
    /\ calls[c].received[1] = 1
    /\ Len(calls[c].result.quiz) >= 2
    /\ Len(calls[c].result.quiz[1].options.v) = 4
    /\ Len(calls[c].result.quiz[2].options.v) = 3

\* the object round 0 parsed
Round0Object(c) == Extracted[calls[c].received[1]].val
\* the value round 0 supplied under key, or the default; a value that is
\* null, empty text, 0 or false counts as not supplied
SuppliedOr(c, key, default) ==
  IF Truthy(Get(Round0Object(c), key)) THEN Get(Round0Object(c), key) ELSE default

\* C9: on the model path summary, key_entities and related_topics are round
\* 0's (empty when absent) whatever the follow-up responses held, and
\* sections is round 0's when supplied and the request's otherwise.
C9_MetadataFromRound0 ==
  \A c \in DOMAIN calls :
    OnModelPath(c) =>
      /\ calls[c].result.summary = SuppliedOr(c, KSummary, Str(<<>>))
      /\ calls[c].result.key_entities = SuppliedOr(c, KKeyEntities, EmptyEntities)
      /\ calls[c].result.related_topics = SuppliedOr(c, KRelatedTopics, Arr(<<>>))
      /\ calls[c].result.sections = SuppliedOr(c, KSections, calls[c].sections)

\* round 0 omitted the metadata and a follow-up response carried some
C9_Witness ==
  \E c \in DOMAIN calls :
    /\ OnModelPath(c)
    /\ calls[c].received[1] = 6
    /\ \E i \in 2..Len(calls[c].received) : calls[c].received[i] = 3
    /\ calls[c].result.sections = calls[c].sections

\* a call run alone: the same request answered by the same responses
RECURSIVE Replay(_, _, _)
Replay(st, rs, i) ==
  IF i > Len(rs) THEN st
  ELSE IF st.pc = "round0" THEN Replay(AfterRound0(st, rs[i]), rs, i + 1)
  ELSE IF st.pc = "more"
  THEN Replay(AfterFollowUp(st, rs[i], SeenIn(st.quiz)), rs, i + 1)
  ELSE st

RunAlone(c) ==
  Replay(Begin([url |-> calls[c].url, title |-> calls[c].title,
                article_text |-> calls[c].article_text,
                sections |-> calls[c].sections], calls[c].count),
         calls[c].received, 1)

\* C10: however concurrent calls interleave at their awaits, each returns
\* the record it returns when run alone with the same responses.
C10_CallsAreIndependent ==
  \A c \in DOMAIN calls : Done(c) => calls[c].result = RunAlone(c).result

\* two calls that both went through a merging follow-up round have returned
C10_Witness ==
  \E c, d \in DOMAIN calls :
    /\ c # d
    /\ OnModelPath(c) /\ OnModelPath(d)
    /\ calls[c].received = <<1, 3>>
    /\ calls[d].received = <<1, 3>>

\* the arguments of call c
Request(c) ==
  [url |-> calls[c].url, title |-> calls[c].title,
   article_text |-> calls[c].article_text, sections |-> calls[c].sections]

FieldValues(c) ==
  LET rec == calls[c].result
  IN {rec.url, rec.title, rec.summary, rec.key_entities, rec.sections,
      rec.related_topics}
       \cup UNION {{rec.quiz[n].question, rec.quiz[n].options, rec.quiz[n].answer,
                    rec.quiz[n].difficulty, rec.quiz[n].explanation} :
                   n \in 1..Len(rec.quiz)}

\* C15: every error extractJson throws (no "{", no closing brace, no parse)
\* carries the text it was called with, and no field of a returned record
\* holds the text of a response.
C15_ErrorsCarryRawText ==
  \A c \in DOMAIN calls :
    \A i \in 1..Len(calls[c].received) :
      LET r == calls[c].received[i]
      IN r # Raises =>
           /\ ~Extracted[r].ok =>
                Extracted[r].hasRaw /\ Extracted[r].raw = Texts[r]
           /\ Done(c) => Str(Texts[r]) \notin FieldValues(c)

\* the i-th response of call c came back and parsed into something the
\* projection takes
Parsed(c, i) ==
  /\ i <= Len(calls[c].received)
  /\ calls[c].received[i] # Raises
  /\ Extracted[calls[c].received[i]].ok
  /\ ~MapThrows(Extracted[calls[c].received[i]].val)

\* the projected entries of the i-th response of call c
Entries(c, i) == MapQuiz(Extracted[calls[c].received[i]].val)

QuestionsOf(quiz) == {quiz[n].question : n \in 1..Len(quiz)}

\* the members of a set of indices in rising order
InOrder(S) ==
  [n \in 1..Cardinality(S) |->
     CHOOSE j \in S : Cardinality({x \in S : x < j}) = n - 1]

\* the indices of the candidates that have a question text, one that neither
\* the quiz nor an earlier candidate has
NovelIn(cands, quiz) ==
  {j \in 1..Len(cands) :
     /\ Truthy(cands[j].question)
     /\ cands[j].question \notin QuestionsOf(quiz)
     /\ \A i \in 1..(j - 1) : cands[i].question # cands[j].question}

\* C16: when round 0 yields k < count questions and the follow-up behind it
\* yields candidates of which at least count - k are novel, the call returns
\* exactly count entries: round 0's k in order, then the first count - k
\* novel candidates in the order of the response, and no question text twice.
C16_FillsUpWithNovelCandidates ==
  \A c \in DOMAIN calls :
    (Parsed(c, 1) /\ Parsed(c, 2)) =>
      LET N == calls[c].count
          round0 == Take(Entries(c, 1), N)
          k == Len(round0)
          cands == Entries(c, 2)
          novel == InOrder(NovelIn(cands, round0))
      IN (k < N /\ Len(novel) >= N - k) =>
           /\ Done(c)
           /\ calls[c].fallbackCalls = 0
           /\ Len(calls[c].result.quiz) = N
           /\ calls[c].result.quiz =
                round0 \o [n \in 1..(N - k) |-> cands[novel[n]]]
           /\ \A i, j \in 1..N :
                i # j => calls[c].result.quiz[i].question
                           # calls[c].result.quiz[j].question

\* the i-th response of call c came back and extractJson threw on it
ParseFailed(c, i) ==
  /\ i <= Len(calls[c].received)
  /\ calls[c].received[i] # Raises
  /\ ~Extracted[calls[c].received[i]].ok

\* round 0 of call c gave fewer questions than asked for
Round0Short(c) == Parsed(c, 1) /\ Len(Entries(c, 1)) < calls[c].count

\* C17 as stated: when round 0 gives fewer than count questions and the
\* follow-up rounds fail to parse, the loop stops after 2 follow-up
\* attempts, with round 0's questions and without fallback.
C17_StopsAfterTwoFailedFollowUps ==
  \A c \in DOMAIN calls :
    (/\ Done(c) /\ Round0Short(c)
     /\ Len(calls[c].received) >= 2
     /\ \A i \in 2..Len(calls[c].received) : ParseFailed(c, i)) =>
      /\ Len(calls[c].prompts) = 1 + 2
      /\ calls[c].result.quiz = Entries(c, 1)
      /\ calls[c].fallbackCalls = 0

\* C17, amended: when round 0 gives fewer than count questions and follow-up
\* round 1 fails to parse, the loop stops after that one follow-up attempt
\* (round 2 is never invoked), with round 0's questions and without fallback.
C17_StopsAfterFirstFailedFollowUp ==
  \A c \in DOMAIN calls :
    (Round0Short(c) /\ ParseFailed(c, 2)) =>
      /\ Done(c)
      /\ Len(calls[c].prompts) = 1 + 1
      /\ calls[c].attempts = 1
      /\ calls[c].result.quiz = Entries(c, 1)
      /\ calls[c].fallbackCalls = 0

\* round 0 gave 2 of 5 questions and round 1's text did not parse
C17_Witness ==
  \E c \in DOMAIN calls :
    /\ Done(c)
    /\ calls[c].count = 5
    /\ calls[c].received = <<1, 10>>
    /\ Len(calls[c].result.quiz) = 2

\* C18: when round 0 yields at least count questions no follow-up is
\* invoked and the quiz returned is the first count of them in round 0's
\* order, each with its options cut to the first 4.
C18_Round0EnoughNoFollowUp ==
  \A c \in DOMAIN calls :
    (Parsed(c, 1) /\ Len(SourceEntries(c, 1)) >= calls[c].count) =>
      /\ Done(c)
      /\ calls[c].fallbackCalls = 0
      /\ Len(calls[c].prompts) = 1
      /\ Len(calls[c].received) = 1
      /\ Len(calls[c].result.quiz) = calls[c].count
      /\ \A n \in 1..calls[c].count :
           /\ IsCutOf(calls[c].result.quiz[n], SourceEntries(c, 1)[n])
           /\ Len(calls[c].result.quiz[n].options.v) <= 4

\* one question was asked for and round 0's text held one with options a to
\* e and a trailing comma behind it
C18_Witness ==
  \E c \in DOMAIN calls :
    /\ Done(c)
    /\ calls[c].count = 1
    /\ calls[c].received = <<4>>
    /\ Len(calls[c].result.quiz) = 1
    /\ calls[c].result.quiz[1].options =
         Arr(<<Str(<<"a">>), Str(<<"b">>), Str(<<"c">>), Str(<<"d">>)>>)

\* the question texts of the listing the i-th prompt of call c carried: the
\* quiz as it was when round i - 1 was invoked
ListedBefore(c, i) ==
  [n \in 1..Len(calls[c].prompts[i].previous.lines) |->
     calls[c].prompts[i].previous.lines[n].question]

\* C19: when a follow-up round fails to parse, no further round is invoked,
\* whatever attempts remain, and the quiz returned is the quiz accumulated
\* before that round.
C19_FailedFollowUpEndsTheLoop ==
  \A c \in DOMAIN calls :
    \A i \in 2..Len(calls[c].received) :
      ParseFailed(c, i) =>
        /\ Done(c)
        /\ Len(calls[c].received) = i
        /\ Len(calls[c].prompts) = i
        /\ calls[c].fallbackCalls = 0
        /\ calls[c].result.quiz = calls[c].quiz
        /\ Len(calls[c].result.quiz) < calls[c].count
        /\ SeenIn(calls[c].result.quiz) = ListedBefore(c, i)

\* the second follow-up failed to parse with one attempt left, after the
\* first one had added to round 0's quiz
C19_Witness ==
  \E c \in DOMAIN calls :
    /\ Done(c)
    /\ Len(calls[c].received) = 3
    /\ Parsed(c, 2)
    /\ ParseFailed(c, 3)
    /\ calls[c].attempts = 2
    /\ Len(calls[c].result.quiz) > Len(Entries(c, 1))

\* every response call c received so far came back and parsed
AllParsed(c) == \A i \in 1..Len(calls[c].received) : Parsed(c, i)

\* the quiz of call c after its first i responses when a candidate is
\* skipped exactly if the quiz or an earlier candidate of its round has its
\* question text, or, with needText, also if it has no question text; the
\* others are appended in order while the quiz is shorter than count
RECURSIVE Accumulated(_, _, _)
Accumulated(c, i, needText) ==
  IF i = 1 THEN Take(Entries(c, 1), calls[c].count)
  ELSE LET before == Accumulated(c, i - 1, needText)
           cands == Entries(c, i)
           kept == {j \in 1..Len(cands) :
                      /\ needText => Truthy(cands[j].question)
                      /\ cands[j].question \notin QuestionsOf(before)
                      /\ \A m \in 1..(j - 1) :
                           cands[m].question # cands[j].question}
           picked == InOrder(kept)
           room == calls[c].count - Len(before)
       IN before \o [n \in 1..(IF Len(picked) < room THEN Len(picked) ELSE room)
                       |-> cands[picked[n]]]

\* C20 as stated: in a parsed follow-up a candidate is skipped if and only
\* if its exact question text is already in the duplicate tracker; every
\* other candidate, whatever its text, is appended until count is reached.
C20_SkippedIffTextSeen ==
  \A c \in DOMAIN calls :
    (Len(calls[c].received) >= 2 /\ AllParsed(c)) =>
      calls[c].quiz = Accumulated(c, Len(calls[c].received), FALSE)

\* C20, amended: in a parsed follow-up a candidate is skipped if and only if
\* its question text is absent or empty or, compared exactly, already in the
\* duplicate tracker; every other candidate is appended and its text added
\* to the tracker until count is reached.
C20_SkippedIffNoTextOrSeen ==
  \A c \in DOMAIN calls :
    (Len(calls[c].received) >= 2 /\ AllParsed(c)) =>
      calls[c].quiz = Accumulated(c, Len(calls[c].received), TRUE)

\* after round 0's Q1 and Q2 a follow-up's candidates without a question
\* text were skipped, and from the next one Q1 and Q2 were skipped while
\* "q1" and Q4 were appended
C20_Witness ==
  \E c \in DOMAIN calls :
    /\ calls[c].received = <<1, 7, 15>>
    /\ calls[c].count = 5
    /\ SeenIn(calls[c].quiz) =
         <<Str(<<"Q", "1">>), Str(<<"Q", "2">>), Str(<<"q", "1">>),
           Str(<<"Q", "4">>)>>

\* every response call c received came back and extractJson returned on it
AllExtracted(c) ==
  \A i \in 1..Len(calls[c].received) :
    calls[c].received[i] # Raises /\ Extracted[calls[c].received[i]].ok

\* C21: the projection of a parsed object onto the quiz shape never raises,
\* in round 0 or in a follow-up, whatever the object holds: a call all of
\* whose responses parsed never ends in the catch that returns fallbackQuiz.
C21_ProjectionNeverRaises ==
  \A c \in DOMAIN calls :
    AllExtracted(c) =>
      /\ AllParsed(c)
      /\ Done(c) /\ calls[c].received # <<>> => calls[c].fallbackCalls = 0

\* C22: every follow-up prompt asks for count minus the length of the quiz
\* accumulated at that moment, at least 1, and lists exactly the question
\* texts accumulated so far in the order of the quiz, numbered from 1.
C22_FollowUpPromptAsksForRemaining ==
  \A c \in DOMAIN calls :
    \A i \in 2..Len(calls[c].prompts) :
      LET sofar == Accumulated(c, i - 1, TRUE)
          prompt == calls[c].prompts[i]
      IN /\ prompt.qCount = calls[c].count - Len(sofar)
         /\ prompt.qCount >= 1
         /\ prompt.previous.listed
         /\ Len(prompt.previous.lines) = Len(sofar)
         /\ \A n \in 1..Len(sofar) :
              /\ prompt.previous.lines[n].n = n
              /\ prompt.previous.lines[n].question = sofar[n].question

\* the third prompt of a call listed round 0's two questions and the two a
\* follow-up added, and asked for the one still missing
C22_Witness ==
  \E c \in DOMAIN calls :
    /\ calls[c].count = 5
    /\ calls[c].received = <<1, 15>>
    /\ Len(calls[c].prompts) = 3
    /\ calls[c].prompts[3].qCount = 1
    /\ Len(calls[c].prompts[3].previous.lines) = 4

\* no follow-up response of call c holds a candidate that is novel
NothingNovel(c) ==
  \A i \in 2..Len(calls[c].received) :
    NovelIn(Entries(c, i), Entries(c, 1)) = {}

\* C23: when round 0 yields fewer than count questions and every follow-up
\* parses but adds nothing novel, exactly 3 follow-ups are invoked and the
\* call returns round 0's questions without fallbackQuiz.
C23_EmptyFollowUpsUseUpAttempts ==
  \A c \in DOMAIN calls :
    (Round0Short(c) /\ AllParsed(c) /\ NothingNovel(c)) =>
      /\ Len(calls[c].received) <= 1 + 3
      /\ Len(calls[c].received) < 1 + 3 =>
           calls[c].pc = "more" /\ Len(calls[c].prompts) = Len(calls[c].received) + 1
      /\ Len(calls[c].received) = 1 + 3 =>
           /\ Done(c)
           /\ Len(calls[c].prompts) = 1 + 3
           /\ calls[c].attempts = 3
           /\ calls[c].fallbackCalls = 0
           /\ calls[c].result.quiz = Entries(c, 1)

\* round 0 gave 2 of 3 questions and three follow-ups each repeated Q1
C23_Witness ==
  \E c \in DOMAIN calls :
    /\ Done(c)
    /\ calls[c].count = 3
    /\ calls[c].received = <<1, 2, 2, 2>>
    /\ Len(calls[c].result.quiz) = 2

IsPrefix(xs, ys) == Len(xs) <= Len(ys) /\ xs = SubSeq(ys, 1, Len(xs))

\* the quiz of every call after a step begins with its quiz before the step
QuizOnlyAppended ==
  \A c \in DOMAIN calls : IsPrefix(calls[c].quiz, calls'[c].quiz)

\* the entries every text of the catalogue projects to, none for a text
\* that does not parse or that the projection raises on
Candidates ==
  [r \in 1..Len(Texts) |->
     IF Extracted[r].ok /\ ~MapThrows(Extracted[r].val)
     THEN MapQuiz(Extracted[r].val) ELSE <<>>]

\* where the follow-up responses of call c hold a candidate with the
\* question text x: round i, place j, written 10 * i + j
PlacesOf(c, x) ==
  UNION {{10 * i + j :
            j \in {k \in 1..Len(Candidates[calls[c].received[i]]) :
                     Candidates[calls[c].received[i]][k].question = x}} :
         i \in {r \in 2..Len(calls[c].received) : calls[c].received[r] # Raises}}

\* the first of them, 0 when there is none
FirstPlaceOf(c, x) == IF PlacesOf(c, x) = {} THEN 0 ELSE Min(PlacesOf(c, x))

\* a quiz returned on the model path is round 0's questions cut to count,
\* then follow-up candidates, each the first one that carried its question
\* text, those of an earlier round before those of a later one and those of
\* one round in the order of the response
StartsWithRound0(c) ==
  LET quiz == calls[c].result.quiz
      first == Take(Candidates[calls[c].received[1]], calls[c].count)
  IN /\ IsPrefix(first, quiz)
     /\ \A n \in (Len(first) + 1)..Len(quiz) :
          LET place == FirstPlaceOf(c, quiz[n].question)
          IN /\ place # 0
             /\ quiz[n] = Candidates[calls[c].received[place \div 10]][place % 10]
             /\ n < Len(quiz) => place < FirstPlaceOf(c, quiz[n + 1].question)

\* C24: within a call the quiz only grows by appending, and a quiz returned
\* on the model path is round 0's questions, cut to count, in their order,
\* followed by the accepted follow-up questions in the order of acceptance.
C24_QuizGrowsByAppending ==
  /\ [][QuizOnlyAppended]_vars
  /\ [](\A c \in DOMAIN calls : OnModelPath(c) /\ Parsed(c, 1) => StartsWithRound0(c))

\* two follow-ups each added one question behind round 0's two
C24_Witness ==
  \E c \in DOMAIN calls :
    /\ OnModelPath(c)
    /\ calls[c].count = 4
    /\ calls[c].received = <<1, 14, 3>>
    /\ SeenIn(calls[c].result.quiz) =
         <<Str(<<"Q", "1">>), Str(<<"Q", "2">>), Str(<<"Q", "3">>), Str(<<"Q", "4">>)>>

\* C25: on the model path url and title of the returned record are the
\* request's, whatever url and title a response of the model holds.
C25_UrlAndTitleFromRequest ==
  \A c \in DOMAIN calls :
    OnModelPath(c) =>
      /\ calls[c].result.url = calls[c].url
      /\ calls[c].result.title = calls[c].title

\* round 0's object held a url and a title of its own
C25_Witness ==
  \E c \in DOMAIN calls :
    /\ OnModelPath(c)
    /\ Truthy(Get(Round0Object(c), KUrl))
    /\ Get(Round0Object(c), KUrl) # calls[c].url
    /\ Truthy(Get(Round0Object(c), KTitle))
    /\ Get(Round0Object(c), KTitle) # calls[c].title

\* ------------------------------------------------------------------------
\* Properties of queryWithRetry
\* ------------------------------------------------------------------------

\* the catalogue's errors that tell of a lost or timed-out connection:
\* MsgTerminated, MsgReset, MsgTimedOut, MsgPeer
LostConnection == {1, 2, 3, 4}

\* how many executions at the head of os failed with such an error
LeadingTransient(os) ==
  Cardinality({n \in 1..Len(os) : \A m \in 1..n : os[m] \in LostConnection})

QueryEnded == rq.pc \in {"returned", "threw"}

\* C26: queryWithRetry executes the query 1 + min(retries, t) times, t being
\* the number of leading executions that failed with a transient error, and
\* ends as its last execution did: the first success is returned, an error
\* that is not transient is rethrown at once, and the last error is rethrown
\* when the retries are used up.
C26_RetriesOnlyTransientErrors ==
  /\ Len(rq.executed) <= 1 + rq.retries
  /\ \A n \in 1..(Len(rq.executed) - 1) : rq.executed[n] \in LostConnection
  /\ Len(rq.waited) \in {Len(rq.executed) - 1, Len(rq.executed)}
  /\ QueryEnded =>
       LET t == LeadingTransient(rq.executed)
       IN /\ Len(rq.executed) = 1 + (IF rq.retries < t THEN rq.retries ELSE t)
          /\ Len(rq.waited) = Len(rq.executed) - 1
          /\ rq.result = "returned" <=> Last(rq.executed) = Resolves
          /\ rq.result = "threw" <=> Last(rq.executed) # Resolves
  /\ (rq.pc \in {"query", "sleep"} /\ rq.executed # <<>>) =>
       /\ Last(rq.executed) \in LostConnection
       /\ Len(rq.executed) <= rq.retries

\* three retries: two lost connections, among them one reported in lower
\* case, then an error that is not transient, rethrown with a retry left
C26_Witness ==
  /\ rq.pc = "threw"
  /\ rq.retries = 3
  /\ rq.executed = <<3, 4, 6>>
  /\ rq.waited = <<200, 400>>

\* ------------------------------------------------------------------------
\* Properties of routes/auth.js
\* ------------------------------------------------------------------------

VerifyRoutes == {RegisterVerify, ForgotVerify}

\* request r was a verification and was answered with success
Verified(r) ==
  /\ auth.reqs[r].route \in VerifyRoutes
  /\ auth.reqs[r].pc = "responded"
  /\ auth.reqs[r].status = 200

\* C27: a row of otps authorizes at most one successful verification: no two
\* verification requests with the same email, code and purpose are both
\* answered with success on the strength of the same row, however the
\* requests interleave.
C27_OtpRowVerifiesOnce ==
  \A r1, r2 \in DOMAIN auth.reqs :
    (/\ r1 # r2
     /\ Verified(r1)
     /\ Verified(r2)
     /\ auth.reqs[r1].email = auth.reqs[r2].email
     /\ auth.reqs[r1].code = auth.reqs[r2].code
     /\ auth.reqs[r1].route = auth.reqs[r2].route)
    => auth.reqs[r1].row # auth.reqs[r2].row

ForgotAnswered(r) ==
  /\ auth.reqs[r].route = ForgotRequest
  /\ auth.reqs[r].pc = "responded"
  /\ auth.reqs[r].message # MsgDbError

\* C30: /forgot-password-request answers a valid email with the same status
\* and message whether a user with that email exists or not, however the
\* delivery of the OTP e-mail ends (the database answering every query).
C30_ForgotRequestHidesExistence ==
  \A r1, r2 \in DOMAIN auth.reqs :
    (/\ ForgotAnswered(r1)
     /\ ForgotAnswered(r2)
     /\ auth.reqs[r1].found
     /\ ~auth.reqs[r2].found)
    => /\ auth.reqs[r1].status = auth.reqs[r2].status
       /\ auth.reqs[r1].message = auth.reqs[r2].message

\* ------------------------------------------------------------------------
\* Properties of QuizMode
\* ------------------------------------------------------------------------

\* C28: in one exam session the attempt is sent to the server at most once,
\* however the Submit click, the timer's end, the delayed auto-submit after
\* violations and the auto-submit after a refused webcam interleave.
C28_AttemptSentOnce == exam.mounted => Len(exam.sent) <= 1

MaxViolations == 3

\* C29: the auto-submit after violations is scheduled only when the total of
\* fullscreen exits and tab switches, the n of 'Security Violation n/3' and
\* of 'Violations: n/3', has reached 3.
C29_AutoSubmitAtThreeViolations ==
  \A n \in 1..Len(exam.scheduled) : exam.scheduled[n] >= MaxViolations

====
